---- MODULE Spec2Model ----
(***************************************************************************)
(* A model of rustlife (src/main.rs): the rule engine `life` with its      *)
(* helpers `count_neighbors` and `check_neighbor`, the histogram builder   *)
(* `histo`, the drawing functions `show` and `show_histo`, and the frame   *)
(* loop of `main` with its terminal set-up and restoration.                *)
(*                                                                         *)
(* Six specifications share the variables:                                 *)
(*   Spec      the interactive frame loop of main (one Render step and one *)
(*             Event step per frame), advancing with life;                 *)
(*   FairSpec  Spec with the fairness of a single-threaded loop;           *)
(*   SpecGen   repeated application of life to every seed of a small grid; *)
(*   SpecEdge  the same for seeds at the ends of the i32 range;            *)
(*   SpecLife  one call of life, its two loops unrolled one iteration per  *)
(*             step, the HashSet iteration order chosen                    *)
(*             nondeterministically;                                       *)
(*   SpecShow  one frame drawn for Generations of several ages, offsets of *)
(*             both signs and terminals of several sizes.                  *)
(***************************************************************************)
EXTENDS Integers, Sequences, FiniteSets, TLC

VARIABLES
    gen,                 \* main: `gen`, the held Generation
    show_histo_enabled,  \* main: histogram visibility flag
    auto_next,           \* main: TRUE = Running, FALSE = Paused
    quit,                \* main: quit flag
    drag_anchor,         \* main: Option<Point>, <<>> = None, <<p>> = Some(p)
    offset,              \* main: viewport offset
    next,                \* main: advance flag of the coming frame
    pc,                  \* position in main / in life
    term,                \* terminal mode held by the terminal collaborator
    restore_attempted,   \* whether main reached its terminal restoration
    shown,               \* what the last completed show() call drew
    lf,                  \* locals of life while its loops run (SpecLife)
    size                 \* what terminal::size() returns: <<columns, rows>>

vars == <<gen, show_histo_enabled, auto_next, quit, drag_anchor, offset, next,
          pc, term, restore_attempted, shown, lf, size>>

(***************************************************************************)
(* Bounds of the model.                                                    *)
(***************************************************************************)
SeedCols == 3        \* width of the seed file's grid
LoopSeedCells == 3   \* seed positions tried by Spec (row-major)
GenSeedCells == 9    \* seed positions tried by SpecGen
OrdSeedCells == 3    \* seed positions tried by SpecLife
MaxTick == 2         \* advances performed by Spec
MaxGenTick == 3      \* advances performed by SpecGen
MaxMouse == 1        \* largest pointer position, as x + y
MaxOffset == 1       \* largest viewport offset, as |x| + |y|
LoopCols == 3        \* terminal columns during Spec
LoopRows == 3        \* terminal rows during Spec
ShowBlocks == 7      \* 2x2 blocks in the largest seed of SpecShow
MaxShowTick == 11    \* advances made on the seeds of SpecShow
MaxShowOffset == 1   \* largest |x|, |y| of the offsets of SpecShow
MaxAgeArg == 12      \* largest max_age histo is applied with
EdgeRows == 2        \* rows (columns) of the seeds of SpecEdge
MaxEdgeCells == 4    \* cells in a seed of SpecEdge

(***************************************************************************)
(* Program constants.                                                      *)
(***************************************************************************)
I32Max == 2147483647
I32Min == -I32Max - 1
HistoMaxAge == 10
WIDTH == 25
GlyphAges == 10
HistoRowsUp == 13
I16Max == 32767

(***************************************************************************)
(* Point, Cell, Generation.                                                *)
(***************************************************************************)
Point(x, y) == [x |-> x, y |-> y]

Cell(point, age) == [point |-> point, age |-> age]

Generation(cells, age, births, deaths) ==
    [cells |-> cells, age |-> age, births |-> births, deaths |-> deaths]

\* Cell's PartialEq and Hash: the point alone.
CellEq(a, b) == a.point = b.point

\* HashSet<Cell>::contains under CellEq.
Contains(set, cell) == \E d \in set : CellEq(d, cell)

\* HashSet<Cell>::insert under CellEq: an equal element already there is kept.
Insert(set, cell) == IF Contains(set, cell) THEN set ELSE set \cup {cell}

\* HashSet<Cell>::get under CellEq (used where Contains holds).
Get(set, cell) == CHOOSE d \in set : CellEq(d, cell)

\* i32 addition of a small step d (|d| <= 2), wrapping at the type's ends.
I32Add(a, d) ==
    IF d > 0 /\ a > I32Max - d THEN I32Min + (a - (I32Max - d) - 1)
    ELSE IF d < 0 /\ a < I32Min - d THEN I32Max - ((I32Min - d) - a - 1)
    ELSE a + d

(***************************************************************************)
(* check_neighbor and count_neighbors.  An Option is <<>> (None) or <<v>>. *)
(***************************************************************************)
check_neighbor(cell, g, optional_empty_neighbors, count) ==
    IF Contains(g, cell)
    THEN [count |-> count + 1, oen |-> optional_empty_neighbors]
    ELSE [count |-> count,
          oen |-> IF optional_empty_neighbors # <<>>
                  THEN <<Insert(optional_empty_neighbors[1], cell)>>
                  ELSE optional_empty_neighbors]

\* The moves of the cursor nb between the eight check_neighbor calls.
NbMovesShort ==
    << <<1, 0>>, <<1, 0>>, <<0, 1>>, <<-1, 0>>, <<0, 1>>, <<1, 0>>, <<1, 0>> >>

NbMoves ==
    << <<1, 0>>, <<1, 0>>, <<0, 1>>, <<-2, 0>>, <<0, 1>>, <<1, 0>>, <<1, 0>> >>

MoveNb(nb, m) ==
    Cell(Point(IF m[1] = 0 THEN nb.point.x ELSE I32Add(nb.point.x, m[1]),
               IF m[2] = 0 THEN nb.point.y ELSE I32Add(nb.point.y, m[2])),
         nb.age)

\* The i-th check_neighbor call at cursor nb and the calls after it.  (The
\* singleton sets here and below bind a step's result as a value before the
\* next step uses it.)
RECURSIVE cn_walk(_, _, _, _)
cn_walk(nb, g, acc, i) ==
    IF i > Len(NbMoves)
    THEN check_neighbor(nb, g, acc.oen, acc.count)
    ELSE CHOOSE r \in
            {cn_walk(n, g, a, i + 1) :
                <<n, a>> \in {<<MoveNb(nb, NbMoves[i]),
                                check_neighbor(nb, g, acc.oen, acc.count)>>}} :
            TRUE

\* The eight neighbours and the cell itself.
count_neighborsWithSelf(cell, g, optional_empty_neighbors) ==
    CHOOSE r \in
        {[w EXCEPT !.count = @ + (IF Contains(g, cell) THEN 1 ELSE 0)] :
            w \in {cn_walk(nb, g, [count |-> 0, oen |-> optional_empty_neighbors], 1) :
                      nb \in {Cell(Point(I32Add(cell.point.x, -1),
                                         I32Add(cell.point.y, -1)), 0)}}} :
        TRUE

count_neighbors(cell, g, optional_empty_neighbors) ==
    CHOOSE r \in
        {cn_walk(nb, g, [count |-> 0, oen |-> optional_empty_neighbors], 1) :
            nb \in {Cell(Point(I32Add(cell.point.x, -1),
                               I32Add(cell.point.y, -1)), 0)}} :
        TRUE

(***************************************************************************)
(* life.  Its locals are the record                                        *)
(*   [next_cells, empty_neighbors, deaths, births];                        *)
(* LifeCellStep is one iteration of the loop over gen.cells, LifeCandStep  *)
(* one iteration of the loop over empty_neighbors.                         *)
(***************************************************************************)
LifeLocals(g) ==
    [next_cells |-> {}, empty_neighbors |-> {},
     deaths |-> g.deaths, births |-> g.births]

LifeCellStepSequential(g, st, cell) ==
    CHOOSE s \in
        {IF r.count = 2 \/ r.count = 3
         THEN [st EXCEPT !.next_cells = Insert(@, Cell(cell.point, cell.age + 1)),
                         !.empty_neighbors = r.oen[1]]
         ELSE [st EXCEPT !.deaths = @ + 1,
                     !.empty_neighbors = r.oen[1]] :
            r \in {count_neighbors(cell, st.next_cells, <<st.empty_neighbors>>)}} :
        TRUE

LifeCellStepNoDeath(g, st, cell) ==
    CHOOSE s \in
        {IF r.count = 2 \/ r.count = 3
         THEN [st EXCEPT !.next_cells = Insert(@, Cell(cell.point, cell.age + 1)),
                         !.empty_neighbors = r.oen[1]]
         ELSE [st EXCEPT !.empty_neighbors = r.oen[1]] :
            r \in {count_neighbors(cell, g.cells, <<st.empty_neighbors>>)}} :
        TRUE

LifeCellStepOnlyThree(g, st, cell) ==
    CHOOSE s \in
        {IF r.count = 3
         THEN [st EXCEPT !.next_cells = Insert(@, Cell(cell.point, cell.age + 1)),
                         !.empty_neighbors = r.oen[1]]
         ELSE [st EXCEPT !.deaths = @ + 1,
                     !.empty_neighbors = r.oen[1]] :
            r \in {count_neighbors(cell, g.cells, <<st.empty_neighbors>>)}} :
        TRUE

LifeCellStepKeepsAge(g, st, cell) ==
    CHOOSE s \in
        {IF r.count = 2 \/ r.count = 3
         THEN [st EXCEPT !.next_cells = Insert(@, Cell(cell.point, cell.age)),
                         !.empty_neighbors = r.oen[1]]
         ELSE [st EXCEPT !.deaths = @ + 1,
                     !.empty_neighbors = r.oen[1]] :
            r \in {count_neighbors(cell, g.cells, <<st.empty_neighbors>>)}} :
        TRUE

\* Lines 178-183.
LifeCellStep(g, st, cell) ==
    CHOOSE s \in
        {IF r.count = 2 \/ r.count = 3
         THEN [st EXCEPT !.next_cells = Insert(@, Cell(cell.point, cell.age + 1)),
                         !.empty_neighbors = r.oen[1]]
         ELSE [st EXCEPT !.deaths = @ + 1,
                     !.empty_neighbors = r.oen[1]] :
            r \in {count_neighbors(cell, g.cells, <<st.empty_neighbors>>)}} :
        TRUE

LifeCandStepTwoOrThree(g, st, cell) ==
    IF count_neighbors(cell, g.cells, <<>>).count \in {2, 3}
    THEN [st EXCEPT !.next_cells = Insert(@, Cell(cell.point, 0)),
                    !.births = @ + 1]
    ELSE st

LifeCandStep(g, st, cell) ==
    IF count_neighbors(cell, g.cells, <<>>).count = 3
    THEN [st EXCEPT !.next_cells = Insert(@, Cell(cell.point, 0)),
                    !.births = @ + 1]
    ELSE st

LifeResultSwapped(g, st) ==
    Generation(st.next_cells, g.age + 1, st.deaths, st.births)

LifeResult(g, st) == Generation(st.next_cells, g.age + 1, st.births, st.deaths)

\* The two loops run in one fixed iteration order, that of the cells'
\* Points: the cells before the middle one, the middle one, the cells after
\* it.
PointLess(p, q) == p.x < q.x \/ (p.x = q.x /\ p.y < q.y)

Before(todo, m) == {c \in todo : PointLess(c.point, m.point)}

After(todo, m) == {c \in todo : PointLess(m.point, c.point)}

Middle(todo) ==
    CHOOSE m \in todo : Cardinality(Before(todo, m)) = Cardinality(todo) \div 2

RECURSIVE LifeCells(_, _, _)
LifeCells(g, st, todo) ==
    IF todo = {} THEN st
    ELSE CHOOSE r \in
            {LifeCells(g, s2, a2) :
                <<s2, a2>> \in
                    {<<LifeCellStep(g, s1, m1), a1>> :
                        <<s1, m1, a1>> \in
                            {<<LifeCells(g, st, b), m, a>> :
                                <<b, m, a>> \in
                                    {<<Before(todo, c), c, After(todo, c)>> :
                                        c \in {Middle(todo)}}}}} :
            TRUE

RECURSIVE LifeCands(_, _, _)
LifeCands(g, st, todo) ==
    IF todo = {} THEN st
    ELSE CHOOSE r \in
            {LifeCands(g, s2, a2) :
                <<s2, a2>> \in
                    {<<LifeCandStep(g, s1, m1), a1>> :
                        <<s1, m1, a1>> \in
                            {<<LifeCands(g, st, b), m, a>> :
                                <<b, m, a>> \in
                                    {<<Before(todo, c), c, After(todo, c)>> :
                                        c \in {Middle(todo)}}}}} :
            TRUE

life(g) ==
    CHOOSE r \in
        {LifeResult(g, s2) :
            s2 \in {LifeCands(g, s1, s1.empty_neighbors) :
                       s1 \in {LifeCells(g, LifeLocals(g), g.cells)}}} :
        TRUE

(***************************************************************************)
(* histo: one bucket per age 0..max_age, each cell counted at              *)
(* min(age, max_age).                                                      *)
(***************************************************************************)
MinFirst(a, b) == a

Min(a, b) == IF a < b THEN a ELSE b

\* Lines 209-211: entry(..).and_modify(..) changes an entry that exists.
HistoCellStep(h, c, max_age) ==
    IF Min(c.age, max_age) \in DOMAIN h
    THEN [h EXCEPT ![Min(c.age, max_age)] = @ + 1]
    ELSE h

RECURSIVE HistoCells(_, _, _)
HistoCells(h, todo, max_age) ==
    IF todo = {} THEN h
    ELSE CHOOSE r \in
            {HistoCells(h2, a2, max_age) :
                <<h2, a2>> \in
                    {<<HistoCellStep(h1, m1, max_age), a1>> :
                        <<h1, m1, a1>> \in
                            {<<HistoCells(h, b, max_age), m, a>> :
                                <<b, m, a>> \in
                                    {<<Before(todo, c), c, After(todo, c)>> :
                                        c \in {Middle(todo)}}}}} :
            TRUE

histo(g, max_age) == HistoCells([a \in 0..max_age |-> 0], g.cells, max_age)

(***************************************************************************)
(* show and show_histo.  What they queue on stdout is a sequence of        *)
(* commands: ClearAll, and PrintAt(x, y, s) for MoveTo(x, y) followed by   *)
(* Print(s).  sz is the <<columns, rows>> terminal::size() returned.       *)
(***************************************************************************)
ClearAll == [op |-> "Clear"]

PrintAt(x, y, s) == [op |-> "Print", x |-> x, y |-> y, s |-> s]

Max(a, b) == IF a > b THEN a ELSE b

\* Lines 255-259: the glyph of a cell.
Glyph(age) == IF age < GlyphAges THEN ToString(age) ELSE "+"

\* Lines 267-273: the status line.
Status(g) ==
    [gen |-> g.age, cells |-> Cardinality(g.cells),
     births |-> g.births, deaths |-> g.deaths]

\* Line 248: the Cell looked up for screen position (x, y).
LookupPlus(x, y, off) == Cell(Point(x + off.x, y + off.y), 0)

Lookup(x, y, off) == Cell(Point(x - off.x, y - off.y), 0)

\* Lines 243-277.  The loops visit position k = x * ys + y in the order of
\* k, x being the outer and y the inner loop variable.
show(g, off, sz) ==
    LET xs == sz[1]
        ys == sz[2]
        X(k) == k \div ys
        Y(k) == k % ys
    IN  CHOOSE r \in
            {<<ClearAll>>
             \o [i \in 1..Len(hits) |->
                    PrintAt(X(hits[i]), Y(hits[i]),
                            Glyph(Get(g.cells,
                                      Lookup(X(hits[i]), Y(hits[i]), off)).age))]
             \o <<PrintAt(0, 0, Status(g))>> :
                hits \in {SelectSeq([i \in 1..(xs * ys) |-> i - 1],
                                    LAMBDA k : Contains(g.cells,
                                                        Lookup(X(k), Y(k), off)))}} :
            TRUE

\* u16 as i16.
AsI16(n) == IF n > I16Max THEN n - 2 * (I16Max + 1) ELSE n

\* Line 222: the largest count (1 for a map without entries).
MaxCount(h) ==
    IF DOMAIN h = {} THEN 1
    ELSE CHOOSE m \in {h[a] : a \in DOMAIN h} : \A a \in DOMAIN h : h[a] <= m

\* Lines 225-226: (count as f64 * 1.0_f64.min(WIDTH / max_count as f64)) as
\* usize.  The cast truncates; for max_count below 97 the f64 product
\* truncates to the same integer as the exact quotient.
Bar(count, max_count) ==
    IF max_count <= WIDTH THEN count ELSE (count * WIDTH) \div max_count

\* Line 229: the row of bucket `age`.
HistoRowNoAge(age, ys) == Max(AsI16(ys) - HistoRowsUp, 0)

HistoRow(age, ys) == Max(AsI16(ys) - HistoRowsUp + age, 0)

\* Lines 220-237: the command queued for each entry of the map; the order
\* in which the HashMap yields them is not fixed.
show_histo(h, sz) ==
    CHOOSE r \in
        {[age \in DOMAIN hv |->
            PrintAt(0, HistoRow(age, sz[2]),
                    [age |-> age, count |-> hv[age],
                     bar |-> Bar(hv[age], max_count)])] :
            <<hv, max_count>> \in {<<v, MaxCount(v)>> : v \in {h}}} :
        TRUE

(***************************************************************************)
(* init: the cells of the seed file, all of age 0; `file` is the set of    *)
(* positions of the file's non-space characters (empty when unreadable).   *)
(***************************************************************************)
init(file) == Generation({Cell(p, 0) : p \in file}, 0, 0, 0)

SeedPoints(n) == {Point(i % SeedCols, i \div SeedCols) : i \in 0..(n - 1)}

(***************************************************************************)
(* main, lines 76-149.  pc is "render" at the top of the loop body (line   *)
(* 85), "event" at line 95, "cleanup" at line 142; "done" is main          *)
(* returning Ok, "err" main returning Err, "panic_size", "panic_read" and   *)
(* "panic_anchor" a failed unwrap of terminal::size(), of poll or read,    *)
(* and of drag_anchor.                                                     *)
(***************************************************************************)
None == <<>>

Some(v) == <<v>>

TermSetUp ==
    [alternate_screen |-> TRUE, mouse_capture |-> TRUE,
     cursor_hidden |-> TRUE, raw_mode |-> TRUE]

TermRestored ==
    [alternate_screen |-> FALSE, mouse_capture |-> FALSE,
     cursor_hidden |-> FALSE, raw_mode |-> FALSE]

LfIdle == [st |-> LifeLocals(init({})), todo |-> {}]

\* The state of main after line 83 with g held as gen; pc0 selects the
\* specification's entry point.
StateAt(g, pc0) ==
    /\ gen = g
    /\ show_histo_enabled = FALSE
    /\ auto_next = FALSE
    /\ quit = FALSE
    /\ drag_anchor = None
    /\ offset = Point(0, 0)
    /\ next = FALSE
    /\ pc = pc0
    /\ term = TermSetUp
    /\ restore_attempted = FALSE
    /\ shown = None
    /\ lf = LfIdle
    /\ size = <<LoopCols, LoopRows>>

\* Line 76: gen = init(), for a seed file `file`.
StateAfterSetup(file, pc0) == StateAt(init(file), pc0)

Init == \E file \in SUBSET SeedPoints(LoopSeedCells) : StateAfterSetup(file, "render")

\* while !quit
LoopCondAlways(q) == TRUE

LoopCond(q) == ~q

\* Lines 85-87.
RenderGen(g, nx) == IF nx THEN life(g) ELSE g

\* Lines 88-92: what show (and show_histo, when enabled) were handed and
\* queued.
Frame(g, off, with_histo, sz) ==
    [gen |-> g, offset |-> off,
     histo |-> IF with_histo THEN Some(histo(g, HistoMaxAge)) ELSE None,
     out |-> show(g, off, sz),
     bars |-> IF with_histo
              THEN Some(show_histo(histo(g, HistoMaxAge), sz))
              ELSE None]

\* The advance of line 86 stays within the model's tick bound.
TickBound == next => gen.age < MaxTick

\* Lines 85-94, show and show_histo returning Ok.
RenderOk ==
    /\ pc = "render"
    /\ TickBound
    /\ pc' = "event"
    /\ next' = auto_next
    /\ gen' = RenderGen(gen, next)
    /\ shown' = Some(Frame(gen', offset, show_histo_enabled, size))
    /\ UNCHANGED <<show_histo_enabled, auto_next, quit, drag_anchor, offset,
                   term, restore_attempted, lf, size>>

\* Line 89: show returns Err, which `?` returns from main.
ShowFails ==
    /\ pc = "render"
    /\ TickBound
    /\ pc' = "err"
    /\ gen' = RenderGen(gen, next)
    /\ UNCHANGED <<show_histo_enabled, auto_next, quit, drag_anchor, offset,
                   next, term, restore_attempted, shown, lf, size>>

\* Line 91: show_histo returns Err, which `?` returns from main.
ShowHistoFails ==
    /\ pc = "render"
    /\ TickBound
    /\ show_histo_enabled
    /\ pc' = "err"
    /\ gen' = RenderGen(gen, next)
    /\ shown' = Some(Frame(gen', offset, FALSE, size))
    /\ UNCHANGED <<show_histo_enabled, auto_next, quit, drag_anchor, offset,
                   next, term, restore_attempted, lf, size>>

\* Lines 243 and 220: terminal::size().unwrap() panics.
SizePanics ==
    /\ pc = "render"
    /\ TickBound
    /\ pc' = "panic_size"
    /\ gen' = RenderGen(gen, next)
    /\ UNCHANGED <<show_histo_enabled, auto_next, quit, drag_anchor, offset,
                   next, term, restore_attempted, shown, lf, size>>

RenderStep == RenderOk \/ ShowFails \/ ShowHistoFails \/ SizePanics

\* Line 95: the read blocks exactly when not auto_next; otherwise it is made
\* only after a successful poll.
BlocksAlways(an) == TRUE

BlocksForEvent(an) == ~an

\* The test of `while !quit` after the loop body.
AfterBody(q) == IF LoopCond(q) THEN "render" ELSE "cleanup"

\* Line 95: poll(0) returns Ok(false): no event is read.
PollEmpty ==
    /\ pc = "event"
    /\ ~BlocksForEvent(auto_next)
    /\ pc' = AfterBody(quit)
    /\ UNCHANGED <<gen, show_histo_enabled, auto_next, quit, drag_anchor,
                   offset, next, term, restore_attempted, shown, lf, size>>

\* Lines 95-96: poll or read returns Err and unwrap panics.
ReadPanics ==
    /\ pc = "event"
    /\ pc' = "panic_read"
    /\ UNCHANGED <<gen, show_histo_enabled, auto_next, quit, drag_anchor,
                   offset, next, term, restore_attempted, shown, lf, size>>

Keys == {"s", " ", "h", "q", "x"}

\* Lines 98-113 on the flags [next, auto_next, show_histo_enabled, quit].
DispatchKeyStepRuns(c, f) ==
    CASE c = "s" -> [f EXCEPT !.next = TRUE, !.auto_next = TRUE]
      [] c = " " -> [f EXCEPT !.auto_next = ~f.auto_next, !.next = ~f.auto_next]
      [] c = "h" -> [f EXCEPT !.show_histo_enabled = ~f.show_histo_enabled]
      [] c = "q" -> [f EXCEPT !.quit = TRUE]
      [] OTHER -> f

DispatchKeyNoFlag(c, f) ==
    CASE c = "s" -> [f EXCEPT !.next = TRUE]
      [] c = " " -> [f EXCEPT !.auto_next = ~f.auto_next]
      [] c = "h" -> [f EXCEPT !.show_histo_enabled = ~f.show_histo_enabled]
      [] c = "q" -> [f EXCEPT !.quit = TRUE]
      [] OTHER -> f

DispatchKey(c, f) ==
    CASE c = "s" -> [f EXCEPT !.next = TRUE]
      [] c = " " -> [f EXCEPT !.auto_next = ~f.auto_next, !.next = ~f.auto_next]
      [] c = "h" -> [f EXCEPT !.show_histo_enabled = ~f.show_histo_enabled]
      [] c = "q" -> [f EXCEPT !.quit = TRUE]
      [] OTHER -> f

Flags ==
    [next |-> next, auto_next |-> auto_next,
     show_histo_enabled |-> show_histo_enabled, quit |-> quit]

\* Lines 97-115: Event::Key with KeyCode::Char(c).
ReadKey(c) ==
    /\ pc = "event"
    /\ LET f == DispatchKey(c, Flags)
       IN  /\ next' = f.next
           /\ auto_next' = f.auto_next
           /\ show_histo_enabled' = f.show_histo_enabled
           /\ quit' = f.quit
           /\ pc' = AfterBody(f.quit)
    /\ UNCHANGED <<gen, drag_anchor, offset, term, restore_attempted, shown, lf,
                   size>>

Buttons == {"Left", "Right"}

MousePos == {p \in (0..MaxMouse) \X (0..MaxMouse) : p[1] + p[2] <= MaxMouse}

\* Lines 117-121.
ReadMouseDown(b, x, y) ==
    /\ pc = "event"
    /\ drag_anchor' = IF b = "Left" THEN Some(Point(x, y)) ELSE drag_anchor
    /\ pc' = AfterBody(quit)
    /\ UNCHANGED <<gen, show_histo_enabled, auto_next, quit, offset, next,
                   term, restore_attempted, shown, lf, size>>

\* Lines 122-126.
ReadMouseUp(b) ==
    /\ pc = "event"
    /\ drag_anchor' = IF b = "Left" THEN None ELSE drag_anchor
    /\ pc' = AfterBody(quit)
    /\ UNCHANGED <<gen, show_histo_enabled, auto_next, quit, offset, next,
                   term, restore_attempted, shown, lf, size>>

\* Lines 129-132: the new offset, the anchor being Some.
DragOffset(off, anchor, x, y) ==
    Point(off.x + (x - anchor[1].x), off.y + (y - anchor[1].y))

Abs(n) == IF n < 0 THEN -n ELSE n

InOffsetBound(p) == Abs(p.x) + Abs(p.y) <= MaxOffset

ReadMouseDragKeepsAnchor(b, x, y) ==
    /\ pc = "event"
    /\ IF b # "Left"
       THEN /\ pc' = AfterBody(quit)
            /\ UNCHANGED <<offset, drag_anchor>>
       ELSE IF drag_anchor = None
       THEN /\ pc' = "panic_anchor"
            /\ UNCHANGED <<offset, drag_anchor>>
       ELSE /\ InOffsetBound(DragOffset(offset, drag_anchor, x, y))
            /\ offset' = DragOffset(offset, drag_anchor, x, y)
            /\ drag_anchor' = drag_anchor
            /\ pc' = AfterBody(quit)
    /\ UNCHANGED <<gen, show_histo_enabled, auto_next, quit, next,
                   term, restore_attempted, shown, lf, size>>

\* Lines 127-135; drag_anchor.unwrap() panics on None.
ReadMouseDrag(b, x, y) ==
    /\ pc = "event"
    /\ IF b # "Left"
       THEN /\ pc' = AfterBody(quit)
            /\ UNCHANGED <<offset, drag_anchor>>
       ELSE IF drag_anchor = None
       THEN /\ pc' = "panic_anchor"
            /\ UNCHANGED <<offset, drag_anchor>>
       ELSE /\ InOffsetBound(DragOffset(offset, drag_anchor, x, y))
            /\ offset' = DragOffset(offset, drag_anchor, x, y)
            /\ drag_anchor' = Some(Point(x, y))
            /\ pc' = AfterBody(quit)
    /\ UNCHANGED <<gen, show_histo_enabled, auto_next, quit, next,
                   term, restore_attempted, shown, lf, size>>

\* Lines 114, 136, 138: a key that is no Char, another mouse event, another
\* event.
ReadOther ==
    /\ pc = "event"
    /\ pc' = AfterBody(quit)
    /\ UNCHANGED <<gen, show_histo_enabled, auto_next, quit, drag_anchor,
                   offset, next, term, restore_attempted, shown, lf, size>>

EventStep ==
    \/ PollEmpty
    \/ ReadPanics
    \/ \E c \in Keys : ReadKey(c)
    \/ \E b \in Buttons, p \in MousePos : ReadMouseDown(b, p[1], p[2])
    \/ \E b \in Buttons : ReadMouseUp(b)
    \/ \E b \in Buttons, p \in MousePos : ReadMouseDrag(b, p[1], p[2])
    \/ ReadOther

\* Lines 142-148, both calls returning Ok.
CleanupOk ==
    /\ pc = "cleanup"
    /\ term' = TermRestored
    /\ restore_attempted' = TRUE
    /\ pc' = "done"
    /\ UNCHANGED <<gen, show_histo_enabled, auto_next, quit, drag_anchor,
                   offset, next, shown, lf, size>>

\* Line 142: disable_raw_mode returns Err, which `?` returns from main.
CleanupRawFails ==
    /\ pc = "cleanup"
    /\ restore_attempted' = TRUE
    /\ pc' = "err"
    /\ UNCHANGED <<gen, show_histo_enabled, auto_next, quit, drag_anchor,
                   offset, next, term, shown, lf, size>>

\* Lines 143-148: execute! returns Err.
CleanupExecFails ==
    /\ pc = "cleanup"
    /\ term' = [term EXCEPT !.raw_mode = FALSE]
    /\ restore_attempted' = TRUE
    /\ pc' = "err"
    /\ UNCHANGED <<gen, show_histo_enabled, auto_next, quit, drag_anchor,
                   offset, next, shown, lf, size>>

CleanupStep == CleanupOk \/ CleanupRawFails \/ CleanupExecFails

Next == RenderStep \/ EventStep \/ CleanupStep

Spec == Init /\ [][Next]_vars

\* The loop is one thread, so it goes on whenever it is not blocked: a render
\* is always carried out, and so are the event step of a frame that does not
\* block (Running) and the restoration.
LoopProceeds ==
    \/ RenderStep
    \/ ~BlocksForEvent(auto_next) /\ EventStep
    \/ CleanupStep

\* FairSpec: Spec, from the empty and the full seed, with that fairness.
InitFair ==
    \E file \in {{}, SeedPoints(LoopSeedCells)} : StateAfterSetup(file, "render")

FairSpec == InitFair /\ [][Next]_vars /\ WF_vars(LoopProceeds)

(***************************************************************************)
(* SpecGen: life applied again and again to each seed.                     *)
(***************************************************************************)
InitGen == \E file \in SUBSET SeedPoints(GenSeedCells) : StateAfterSetup(file, "gen")

Advance ==
    /\ pc = "gen"
    /\ gen.age < MaxGenTick
    /\ gen' = life(gen)
    /\ UNCHANGED <<show_histo_enabled, auto_next, quit, drag_anchor, offset,
                   next, pc, term, restore_attempted, shown, lf, size>>

NextGen == Advance

SpecGen == InitGen /\ [][NextGen]_vars

(***************************************************************************)
(* SpecEdge: life applied to seeds at the ends of the i32 range.  An i32   *)
(* operation whose result is out of range panics in a build with overflow  *)
(* checks (the dev profile) and wraps in a build without (the release      *)
(* profile); Advance is the wrapping outcome, OverflowPanics the other.    *)
(***************************************************************************)
I32Overflows(a, d) ==
    \/ d > 0 /\ a > I32Max - d
    \/ d < 0 /\ a < I32Min - d

\* Lines 289-307: one of the moves of the cursor from the i-th on overflows.
RECURSIVE WalkOverflows(_, _)
WalkOverflows(nb, i) ==
    IF i > Len(NbMoves) THEN FALSE
    ELSE \/ I32Overflows(nb.point.x, NbMoves[i][1])
         \/ I32Overflows(nb.point.y, NbMoves[i][2])
         \/ WalkOverflows(MoveNb(nb, NbMoves[i]), i + 1)

\* Lines 286-307: count_neighbors(cell, ..) overflows.
CnOverflows(cell) ==
    \/ I32Overflows(cell.point.x, -1)
    \/ I32Overflows(cell.point.y, -1)
    \/ WalkOverflows(Cell(Point(I32Add(cell.point.x, -1),
                                I32Add(cell.point.y, -1)), 0), 1)

\* Lines 177-192: a count_neighbors call of one of the two loops overflows.
LifeOverflows(g) ==
    \/ \E c \in g.cells : CnOverflows(c)
    \/ \E c \in LifeCells(g, LifeLocals(g), g.cells).empty_neighbors :
          CnOverflows(c)

EdgeXs == {I32Min, I32Min + 1, I32Max - 1, I32Max}

\* Points in the columns at the two ends of the range, and in the rows.
EdgePoints ==
    {Point(x, y) : x \in EdgeXs, y \in 0..(EdgeRows - 1)}
    \cup {Point(x, y) : x \in 0..(EdgeRows - 1), y \in EdgeXs}

EdgeSeeds ==
    {file \in SUBSET {p \in EdgePoints : p.x \in EdgeXs} \cup
              SUBSET {p \in EdgePoints : p.y \in EdgeXs} :
        Cardinality(file) <= MaxEdgeCells}

InitEdge == \E file \in EdgeSeeds : StateAfterSetup(file, "gen")

\* The overflow check of the build fails inside life.
OverflowPanics ==
    /\ pc = "gen"
    /\ gen.age < MaxGenTick
    /\ LifeOverflows(gen)
    /\ pc' = "panic_overflow"
    /\ UNCHANGED <<gen, show_histo_enabled, auto_next, quit, drag_anchor,
                   offset, next, term, restore_attempted, shown, lf, size>>

NextEdge == Advance \/ OverflowPanics

SpecEdge == InitEdge /\ [][NextEdge]_vars

(***************************************************************************)
(* SpecLife: life, lines 173-200, one loop iteration per step; the element *)
(* a HashSet iterator yields next is any element not yet yielded.          *)
(***************************************************************************)
\* The arguments of life: each seed, and what life makes of it when that
\* has no more cells than a seed has.
OrdInputs ==
    {init(file) : file \in SUBSET SeedPoints(OrdSeedCells)}
    \cup {g \in {life(init(file)) : file \in SUBSET SeedPoints(OrdSeedCells)} :
            Cardinality(g.cells) <= OrdSeedCells}

InitLife == \E g \in OrdInputs : StateAt(g, "life")

\* Lines 174-176.
LifeEnter ==
    /\ pc = "life"
    /\ lf' = [st |-> LifeLocals(gen), todo |-> gen.cells]
    /\ pc' = "life_cells"
    /\ UNCHANGED <<gen, show_histo_enabled, auto_next, quit, drag_anchor,
                   offset, next, term, restore_attempted, shown, size>>

\* Lines 177-184, one iteration.
LifeCellIter ==
    /\ pc = "life_cells"
    /\ \E c \in lf.todo :
          lf' = [st |-> LifeCellStep(gen, lf.st, c), todo |-> lf.todo \ {c}]
    /\ UNCHANGED <<gen, show_histo_enabled, auto_next, quit, drag_anchor,
                   offset, next, pc, term, restore_attempted, shown, size>>

\* Lines 186-187: the first loop is over, the second begins.
LifeCellsDone ==
    /\ pc = "life_cells"
    /\ lf.todo = {}
    /\ lf' = [lf EXCEPT !.todo = lf.st.empty_neighbors]
    /\ pc' = "life_cands"
    /\ UNCHANGED <<gen, show_histo_enabled, auto_next, quit, drag_anchor,
                   offset, next, term, restore_attempted, shown, size>>

\* Lines 187-192, one iteration.
LifeCandIter ==
    /\ pc = "life_cands"
    /\ \E c \in lf.todo :
          lf' = [st |-> LifeCandStep(gen, lf.st, c), todo |-> lf.todo \ {c}]
    /\ UNCHANGED <<gen, show_histo_enabled, auto_next, quit, drag_anchor,
                   offset, next, pc, term, restore_attempted, shown, size>>

\* Lines 194-199.
LifeReturn ==
    /\ pc = "life_cands"
    /\ lf.todo = {}
    /\ gen' = LifeResult(gen, lf.st)
    /\ lf' = LfIdle
    /\ pc' = "life_done"
    /\ UNCHANGED <<show_histo_enabled, auto_next, quit, drag_anchor,
                   offset, next, term, restore_attempted, shown, size>>

NextLife == LifeEnter \/ LifeCellIter \/ LifeCellsDone \/ LifeCandIter \/ LifeReturn

SpecLife == InitLife /\ [][NextLife]_vars

(***************************************************************************)
(* SpecShow: one frame of main (lines 85-92) in Paused mode, for           *)
(* Generations of several ages and sizes, offsets of both signs and        *)
(* terminals of several sizes.                                             *)
(***************************************************************************)
BlockAt(i) == {Point(4 * i + dx, dy) : dx \in 0..1, dy \in 0..1}

Blocks(n) == UNION {BlockAt(i) : i \in 0..(n - 1)}

BlinkerRow == {Point(x, 5) : x \in 0..2}

\* Seed files: no, one or ShowBlocks blocks in a row, with or without a
\* blinker below them.
ShowSeeds ==
    {Blocks(n) \cup b : n \in {0, 1, ShowBlocks}, b \in {{}, BlinkerRow}}

RECURSIVE LifeN(_, _)
LifeN(g, n) ==
    IF n = 0 THEN g
    ELSE CHOOSE r \in {LifeN(h, n - 1) : h \in {life(g)}} : TRUE

\* The seeds, and each after one advance and after the last two.
ShowInputs ==
    {LifeN(init(file), n) :
        file \in ShowSeeds, n \in {0, 1, MaxShowTick - 1, MaxShowTick}}

ShowOffsets ==
    {p \in {Point(x, y) : x \in -MaxShowOffset..MaxShowOffset,
                          y \in -MaxShowOffset..MaxShowOffset} :
        Abs(p.x) = Abs(p.y)}

\* Terminals shorter than, as high as and higher than the rows show_histo
\* counts up from the bottom.
ShowSizes ==
    {<<4, 3>>, <<3, HistoRowsUp - 1>>, <<2, HistoRowsUp>>, <<3, HistoRowsUp + 1>>}

\* The highest terminal whose row count is positive as an i16, one column
\* wide.
TallSize == <<1, I16Max>>

ShowCases ==
    (ShowInputs \X ShowOffsets \X ShowSizes)
    \cup ({init({}), init(BlockAt(0))} \X {Point(0, 0)} \X {TallSize})

InitShow ==
    \E case \in ShowCases, h \in BOOLEAN :
        /\ gen = case[1]
        /\ show_histo_enabled = h
        /\ auto_next = FALSE
        /\ quit = FALSE
        /\ drag_anchor = None
        /\ offset = case[2]
        /\ next = FALSE
        /\ pc = "render"
        /\ term = TermSetUp
        /\ restore_attempted = FALSE
        /\ shown = None
        /\ lf = LfIdle
        /\ size = case[3]

NextShow == RenderStep

SpecShow == InitShow /\ [][NextShow]_vars

(***************************************************************************)
(* The rule of the Game of Life stated on Points, independently of life:   *)
(* the reference the claims about life are checked against.                *)
(***************************************************************************)
Pts(cells) == {c.point : c \in cells}

Moore(p) ==
    {Point(p.x + dx, p.y + dy) : dx \in -1..1, dy \in -1..1} \ {p}

LiveNbrs(cells, p) == Cardinality(Moore(p) \cap Pts(cells))

AgesAt(cells, p) == {c.age : c \in {d \in cells : d.point = p}}

\* The Points looked at: every Point within distance 2 of a live cell, and
\* the seed grid with its margin when there is none.
Window(cells) ==
    UNION {UNION {Moore(q) : q \in Moore(p)} : p \in Pts(cells)}
    \cup {Point(x, y) : x \in -1..SeedCols, y \in -1..SeedCols}

RefCells(g) ==
    {Cell(c.point, c.age + 1) :
        c \in {d \in g.cells : LiveNbrs(g.cells, d.point) \in {2, 3}}}
    \cup {Cell(p, 0) :
        p \in {q \in Window(g.cells) \ Pts(g.cells) : LiveNbrs(g.cells, q) = 3}}

RefLife(g) ==
    Generation(RefCells(g), g.age + 1,
               g.births + Cardinality(Pts(RefCells(g)) \ Pts(g.cells)),
               g.deaths + Cardinality(Pts(g.cells) \ Pts(RefCells(g))))

(***************************************************************************)
(* C1 (SpecGen).  Survival rule: whenever life replaces the Generation,    *)
(* each cell alive before with age a is alive after with age exactly a + 1 *)
(* if 2 or 3 of its 8 Moore neighbours were alive, and is not alive after  *)
(* for every other neighbour count.                                        *)
(***************************************************************************)
C1_SurvivalRule ==
    [][\A c \in gen.cells :
          IF LiveNbrs(gen.cells, c.point) \in {2, 3}
          THEN AgesAt(gen'.cells, c.point) = {c.age + 1}
          ELSE c.point \notin Pts(gen'.cells)]_vars

\* A Generation after two advances holding a cell that survived both and one
\* that survived once, cells having died.
C1_Witness ==
    /\ pc = "gen"
    /\ gen.age = 2
    /\ \E c \in gen.cells : c.age = 2
    /\ \E c \in gen.cells : c.age = 1
    /\ gen.deaths >= 2

(***************************************************************************)
(* C2 (SpecGen).  Birth rule: whenever life replaces the Generation, a     *)
(* Point not alive before is alive after if and only if exactly 3 of its 8 *)
(* Moore neighbours were alive, and then with age 0; this covers Points    *)
(* adjacent to no live cell.                                               *)
(***************************************************************************)
C2_BirthRule ==
    [][\A p \in Window(gen.cells) \cup Pts(gen'.cells) :
          p \notin Pts(gen.cells) =>
             /\ p \in Pts(gen'.cells) <=> LiveNbrs(gen.cells, p) = 3
             /\ p \in Pts(gen'.cells) => AgesAt(gen'.cells, p) = {0}]_vars

C2_Witness ==
    /\ pc = "gen"
    /\ gen.age >= 1
    /\ \E c \in gen.cells : c.age = 0
    /\ \E c \in gen.cells : c.age = gen.age
    /\ gen.births >= 2

(***************************************************************************)
(* C3 (SpecGen).  Conservation: whenever life replaces the Generation,     *)
(* births grows by the number of distinct Points alive after and not       *)
(* before, and deaths by the number of Points alive before and not after.  *)
(***************************************************************************)
C3_Conservation ==
    [][/\ gen'.births - gen.births
             = Cardinality(Pts(gen'.cells) \ Pts(gen.cells))
       /\ gen'.deaths - gen.deaths
             = Cardinality(Pts(gen.cells) \ Pts(gen'.cells))
       /\ Cardinality(gen'.cells) = Cardinality(Pts(gen'.cells))]_vars

\* A Generation with a newborn cell that has at least two live neighbours
\* (so at least two cells proposed it), after births and deaths.
C3_Witness ==
    /\ pc = "gen"
    /\ gen.births >= 1
    /\ gen.deaths >= 1
    /\ \E c \in gen.cells : c.age = 0 /\ gen.age >= 1

(***************************************************************************)
(* C4 (SpecLife).  Simultaneous update: in whatever order the two loops of *)
(* life iterate, the Generation life is about to return equals the         *)
(* one-shot reference rule applied to its argument, and until then the     *)
(* argument is untouched.                                                  *)
(***************************************************************************)
C4_OrderIndependent ==
    (pc = "life_cands" /\ lf.todo = {}) => LifeResult(gen, lf.st) = RefLife(gen)

\* life about to return for a Generation in which cells died, survived and
\* were born.
C4_Witness ==
    /\ pc = "life_cands"
    /\ lf.todo = {}
    /\ Cardinality(gen.cells) >= 3
    /\ lf.st.deaths > gen.deaths
    /\ lf.st.births > gen.births
    /\ \E c \in lf.st.next_cells : c.age > 0

(***************************************************************************)
(* C11 (SpecGen).  Still life: whenever life replaces a Generation in      *)
(* which every live cell has 2 or 3 live neighbours and no empty Point has *)
(* exactly 3, the new Generation has the same live Points, the tick one    *)
(* higher, births and deaths unchanged, and is a still life again, so the  *)
(* same holds of every later advance.                                      *)
(***************************************************************************)
StillLife(g) ==
    /\ \A c \in g.cells : LiveNbrs(g.cells, c.point) \in {2, 3}
    /\ \A p \in Window(g.cells) \ Pts(g.cells) : LiveNbrs(g.cells, p) # 3

C11_StillLife ==
    [][StillLife(gen) =>
          /\ Pts(gen'.cells) = Pts(gen.cells)
          /\ gen'.age = gen.age + 1
          /\ gen'.births = gen.births
          /\ gen'.deaths = gen.deaths
          /\ StillLife(gen')]_vars

\* A seeded still life with live cells, advanced twice: nothing was born or
\* died and every cell has survived both advances.
C11_Witness ==
    /\ pc = "gen"
    /\ gen.age = 2
    /\ Cardinality(gen.cells) >= 4
    /\ StillLife(gen)
    /\ gen.births = 0
    /\ gen.deaths = 0
    /\ \A c \in gen.cells : c.age = 2

(***************************************************************************)
(* C12 (SpecGen).  Blinker: whenever life replaces a Generation made of    *)
(* three collinear adjacent cells, the new live Points are the three       *)
(* through the same centre in the other direction (so they differ from the *)
(* old ones), and one more advance gives back the old live Points at the   *)
(* same coordinates.                                                       *)
(***************************************************************************)
Row3(p) == {Point(p.x - 1, p.y), p, Point(p.x + 1, p.y)}

Col3(p) == {Point(p.x, p.y - 1), p, Point(p.x, p.y + 1)}

IsBlinker(P) == \E p \in P : P = Row3(p) \/ P = Col3(p)

\* The blinker through the same centre in the other direction.
Turned(P) ==
    LET p == CHOOSE q \in P : P = Row3(q) \/ P = Col3(q)
    IN  IF P = Row3(p) THEN Col3(p) ELSE Row3(p)

C12_Blinker ==
    [][IsBlinker(Pts(gen.cells)) =>
          /\ Pts(gen'.cells) = Turned(Pts(gen.cells))
          /\ Pts(gen'.cells) # Pts(gen.cells)
          /\ Pts(life(gen').cells) = Pts(gen.cells)]_vars

\* A blinker after two advances from a blinker seed: the centre has lived
\* through both, the two ends were born in the second, and four cells were
\* born and four died on the way.
C12_Witness ==
    /\ pc = "gen"
    /\ gen.age = 2
    /\ IsBlinker(Pts(gen.cells))
    /\ {c.age : c \in gen.cells} = {0, 2}
    /\ gen.births = 4
    /\ gen.deaths = 4

(***************************************************************************)
(* C13 (SpecShow).  Histogram buckets: for the Generation held and every   *)
(* max_age up to MaxAgeArg, histo has exactly the keys 0..max_age, bucket  *)
(* b holds the number of cells whose age, or max_age when the age is       *)
(* larger, is b, and the buckets sum to the number of cells; the histogram *)
(* a frame was drawn from is histo of the frame's Generation for max_age   *)
(* 10.                                                                     *)
(***************************************************************************)
RECURSIVE SumTo(_, _)
SumTo(h, n) == IF n < 0 THEN 0 ELSE h[n] + SumTo(h, n - 1)

Capped(age, m) == IF age > m THEN m ELSE age

Buckets(g, h, m) ==
    /\ DOMAIN h = 0..m
    /\ \A b \in 0..m :
          h[b] = Cardinality({c \in g.cells : Capped(c.age, m) = b})
    /\ SumTo(h, m) = Cardinality(g.cells)

C13_HistoBuckets ==
    /\ \A m \in 0..MaxAgeArg : Buckets(gen, histo(gen, m), m)
    /\ (shown # None /\ shown[1].histo # None) =>
          Buckets(shown[1].gen, shown[1].histo[1], HistoMaxAge)

\* A frame drawn with the histogram of a Generation in which blocks older
\* than the top bucket stand beside the two newborn ends of a blinker.
C13_Witness ==
    /\ pc = "event"
    /\ shown # None
    /\ shown[1].histo # None
    /\ \E c \in gen.cells : c.age > HistoMaxAge
    /\ shown[1].histo[1][HistoMaxAge] >= 5
    /\ shown[1].histo[1][0] = 2

(***************************************************************************)
(* C14 (SpecShow).  Viewport mapping: in the commands show queued between  *)
(* its clearing of the screen and its status line, a glyph is printed at   *)
(* screen position (sx, sy) if and only if (sx, sy) is inside the          *)
(* terminal's columns and rows and the Point (sx - ox, sy - oy) is alive;  *)
(* the positions printed at are those (x + ox, y + oy), (x, y) a live      *)
(* Point, that lie inside, each printed at once.                           *)
(***************************************************************************)
GlyphCmds(out) == SubSeq(out, 2, Len(out) - 1)

GlyphPositions(out) ==
    {<<GlyphCmds(out)[i].x, GlyphCmds(out)[i].y>> : i \in 1..Len(GlyphCmds(out))}

InRegion(q, sz) == q[1] >= 0 /\ q[1] < sz[1] /\ q[2] >= 0 /\ q[2] < sz[2]

C14_ViewportMapping ==
    shown # None =>
        LET f == shown[1]
            pos == GlyphPositions(f.out)
        IN  /\ f.out[1] = ClearAll
            /\ \A i \in 2..Len(f.out) : f.out[i].op = "Print"
            /\ pos = {q \in {<<c.point.x + f.offset.x, c.point.y + f.offset.y>> :
                                c \in f.gen.cells} : InRegion(q, size)}
            /\ \A sx \in 0..(size[1] - 1), sy \in 0..(size[2] - 1) :
                  <<sx, sy>> \in pos
                     <=> Point(sx - f.offset.x, sy - f.offset.y)
                            \in Pts(f.gen.cells)
            /\ Len(GlyphCmds(f.out)) = Cardinality(pos)

\* A frame drawn with a negative offset: some live cells are drawn, others
\* fall outside the terminal.
C14_Witness ==
    /\ pc = "event"
    /\ shown # None
    /\ offset = Point(-1, -1)
    /\ Len(GlyphCmds(shown[1].out)) >= 2
    /\ Len(GlyphCmds(shown[1].out)) < Cardinality(gen.cells)
    /\ \E c \in gen.cells : c.point.x = 0 /\ c.point.y = 0

(***************************************************************************)
(* C15 (SpecShow).  Histogram bar length: in every frame drawn with the    *)
(* histogram, the bar of a bucket with count c is c long when the largest  *)
(* count m (at least 1) is at most 25, and c * 25 / m rounded to the       *)
(* nearest integer when m is larger, so that no bar is longer than 25 and  *)
(* the fullest bucket's bar is min(m, 25) long.                            *)
(***************************************************************************)
\* c * 25 / m to the nearest integer.
BarRounded(c, m) ==
    IF m <= WIDTH THEN c ELSE (2 * c * WIDTH + m) \div (2 * m)

C15_BarLength ==
    (shown # None /\ shown[1].bars # None) =>
        LET h == shown[1].histo[1]
            m == Max(MaxCount(h), 1)
        IN  \A age \in DOMAIN shown[1].bars[1] :
               /\ shown[1].bars[1][age].s.count = h[age]
               /\ shown[1].bars[1][age].s.bar = BarRounded(h[age], m)
               /\ shown[1].bars[1][age].s.bar <= WIDTH
               /\ h[age] = m => shown[1].bars[1][age].s.bar = Min(m, WIDTH)

(***************************************************************************)
(* C16 (SpecEdge).  No boundary special case: whenever life is applied to  *)
(* a Generation with a live cell whose x or y is the least or the greatest *)
(* i32, it completes without an overflow failure, a live cell survives     *)
(* exactly when 2 or 3 of the Points at integer distance 1 from it are     *)
(* alive, and a Point is born only when exactly 3 of the Points at integer *)
(* distance 1 from it are alive: cells at the other end of the range count *)
(* for nothing.                                                            *)
(***************************************************************************)
\* a and b differ by at most 1 as integers.
Near(a, b) ==
    \/ a = b
    \/ a < I32Max /\ a + 1 = b
    \/ b < I32Max /\ b + 1 = a

TrueNbrs(cells, p) ==
    Cardinality({c \in cells : /\ c.point # p
                               /\ Near(c.point.x, p.x)
                               /\ Near(c.point.y, p.y)})

AtExtreme(g) ==
    \E c \in g.cells : \/ c.point.x \in {I32Min, I32Max}
                        \/ c.point.y \in {I32Min, I32Max}

C16_NoBoundarySpecialCase ==
    [][(pc = "gen" /\ AtExtreme(gen)) =>
          /\ pc' # "panic_overflow"
          /\ \A c \in gen.cells :
                c.point \in Pts(gen'.cells)
                   <=> TrueNbrs(gen.cells, c.point) \in {2, 3}
          /\ \A c \in gen'.cells :
                c.point \notin Pts(gen.cells)
                   => TrueNbrs(gen.cells, c.point) = 3]_vars

(***************************************************************************)
(* C18 (SpecGen).  Population accounting: the seed Generation has tick 0   *)
(* and no births or deaths; every advance raises the tick by one, lowers   *)
(* neither births nor deaths, and keeps (number of cells) - births +       *)
(* deaths, which is therefore the number of seed cells in every Generation *)
(* reached; the cells of a Generation are at distinct Points.              *)
(***************************************************************************)
Balance(g) == Cardinality(Pts(g.cells)) - g.births + g.deaths

C18_PopulationAccounting ==
    /\ [](gen.age = 0 => gen.births = 0 /\ gen.deaths = 0)
    /\ [](Cardinality(gen.cells) = Cardinality(Pts(gen.cells)))
    /\ [][/\ gen'.age = gen.age + 1
           /\ gen'.births >= gen.births
           /\ gen'.deaths >= gen.deaths
           /\ Balance(gen') = Balance(gen)]_vars

\* After three advances more cells were born than died, both counters
\* having risen: the population has grown from the seed's.
C18_Witness ==
    /\ pc = "gen"
    /\ gen.age = 3
    /\ gen.deaths >= 2
    /\ gen.births > gen.deaths
    /\ Balance(gen) >= 3

(***************************************************************************)
(* C19 (SpecGen).  Age is the consecutive-survival count: no cell is older *)
(* than the tick, and whenever life replaces the Generation, a cell of age *)
(* a > 0 in the new Generation was alive with age a - 1 in the old one and *)
(* a cell of age 0 was not alive in the old one.  By induction a cell of   *)
(* age a at tick t was alive in the a Generations before and, when a < t,  *)
(* not in the one before those; a reborn Point restarts at 0.              *)
(***************************************************************************)
C19_AgeIsSurvivalCount ==
    /\ [](\A c \in gen.cells : c.age <= gen.age)
    /\ [][\A c \in gen'.cells :
             IF c.age = 0
             THEN c.point \notin Pts(gen.cells)
             ELSE AgesAt(gen.cells, c.point) = {c.age - 1}]_vars

\* After three advances: a cell alive since the seed, a cell born at each
\* tick since, and cells having died.
C19_Witness ==
    /\ pc = "gen"
    /\ gen.age = 3
    /\ {c.age : c \in gen.cells} = 0..3
    /\ gen.deaths >= 1

(***************************************************************************)
(* C20 (SpecShow).  Histogram row placement.  As claimed: in every frame   *)
(* drawn with the histogram, whatever the terminal's height, the 11        *)
(* buckets are printed on 11 pairwise distinct rows inside the terminal.   *)
(***************************************************************************)
BarRow(age) == shown[1].bars[1][age].y

C20_HistoRowPlacement ==
    (shown # None /\ shown[1].bars # None) =>
        /\ DOMAIN shown[1].bars[1] = 0..HistoMaxAge
        /\ \A a \in 0..HistoMaxAge : BarRow(a) >= 0 /\ BarRow(a) < size[2]
        /\ \A a, b \in 0..HistoMaxAge : a # b => BarRow(a) # BarRow(b)

(***************************************************************************)
(* C20 as amended (SpecShow): the same for a terminal of 13 to 32767 rows, *)
(* bucket b being printed on row (rows - 13 + b).                          *)
(***************************************************************************)
C20_HistoRowsFromThirteen ==
    (/\ shown # None
     /\ shown[1].bars # None
     /\ size[2] >= HistoRowsUp
     /\ size[2] <= I16Max) =>
        /\ DOMAIN shown[1].bars[1] = 0..HistoMaxAge
        /\ \A a \in 0..HistoMaxAge :
              /\ BarRow(a) = size[2] - HistoRowsUp + a
              /\ BarRow(a) >= 0
              /\ BarRow(a) < size[2]
        /\ \A a, b \in 0..HistoMaxAge : a # b => BarRow(a) # BarRow(b)

\* The histogram of live cells drawn on a terminal of exactly 13 rows: the
\* youngest bucket is on the top row.
C20_Witness ==
    /\ pc = "event"
    /\ shown # None
    /\ shown[1].bars # None
    /\ size[2] = HistoRowsUp
    /\ gen.cells # {}
    /\ BarRow(0) = 0
    /\ BarRow(HistoMaxAge) = HistoMaxAge

(***************************************************************************)
(* The frame loop.                                                         *)
(***************************************************************************)
Panicked == pc \in {"panic_size", "panic_read", "panic_anchor"}

Ended == pc \in {"done", "err"} \/ Panicked

Ticks(g, nx) == g.age + (IF nx THEN 1 ELSE 0)

(***************************************************************************)
(* C5 (Spec).  Single step while Paused: while auto_next is false, the     *)
(* step key flags the coming frame to advance and leaves the mode Paused,  *)
(* every event other than the step and space keys leaves the coming frame  *)
(* unflagged and the mode Paused, no event changes the Generation, and a   *)
(* render advances the Generation once exactly when flagged and clears the *)
(* flag, so the frame after a stepped frame does not advance again.        *)
(***************************************************************************)
C5_SingleStep ==
    [][/\ (pc = "event" /\ ~auto_next) =>
             /\ gen' = gen
             /\ ReadKey("s") => next' /\ ~auto_next' /\ pc' = "render"
             /\ (~ReadKey("s") /\ ~ReadKey(" ")) => ~next' /\ ~auto_next'
       /\ (pc = "render" /\ ~auto_next) =>
             /\ gen'.age = Ticks(gen, next)
             /\ ~next => gen' = gen
             /\ next => gen'.cells = RefCells(gen)
             /\ pc' = "event" => ~next' /\ ~auto_next']_vars

\* Paused with the coming frame flagged, which only the step key does, the
\* Generation having been advanced and rendered before.
C5_Witness ==
    /\ pc = "render"
    /\ ~auto_next
    /\ next
    /\ gen.age >= 1
    /\ shown # None

(***************************************************************************)
(* C6 (FairSpec).  Auto-play: while auto_next is true the event step can   *)
(* always complete without an event (the loop does not block), every frame *)
(* that begins Running is flagged and advances the Generation exactly      *)
(* once, an event step is never followed by another event step without a   *)
(* render between them (at most one event per frame), and a loop that      *)
(* stays Running for ever (no event pauses or quits it and the terminal    *)
(* does not fail) advances the Generation up to the model's tick bound.    *)
(***************************************************************************)
C6_AutoPlay ==
    /\ []((pc = "event" /\ auto_next) => ENABLED PollEmpty)
    /\ []((pc = "render" /\ auto_next) => next)
    /\ [][(pc = "render" /\ auto_next) => gen'.age = gen.age + 1]_vars
    /\ [][pc = "event" => pc' # "event"]_vars
    /\ <>[](auto_next /\ pc \in {"render", "event"}) => <>(gen.age = MaxTick)

\* Running at the tick bound, with live cells, the frame's render done.
C6_Witness ==
    /\ pc = "event"
    /\ auto_next
    /\ gen.age = MaxTick
    /\ gen.cells # {}

(***************************************************************************)
(* C7 (Spec).  Toggle-play: the mode changes only in a step that reads the *)
(* space key, that step flips the mode and flags the coming frame exactly  *)
(* when the new mode is Running, and a render advances the Generation once *)
(* when flagged and not at all otherwise.                                  *)
(***************************************************************************)
C7_TogglePlay ==
    [][/\ auto_next' # auto_next => ReadKey(" ")
       /\ ReadKey(" ") =>
             /\ auto_next' = ~auto_next
             /\ next' = auto_next'
             /\ pc' = "render"
       /\ pc = "render" =>
             /\ gen'.age = Ticks(gen, next)
             /\ ~next => gen' = gen]_vars

\* Paused again after Running frames advanced the Generation: the coming
\* frame is not flagged.
C7_Witness ==
    /\ pc = "render"
    /\ ~auto_next
    /\ ~next
    /\ gen.age = MaxTick
    /\ ~show_histo_enabled

(***************************************************************************)
(* C8 (Spec).  Quit is absorbing: once quit is set, main is in its         *)
(* restoration or has ended, the Generation held is the one the last show  *)
(* drew, and no later step changes the Generation, what is drawn, the      *)
(* flags or the viewport: no advance, render or event read follows.        *)
(***************************************************************************)
C8_QuitAbsorbing ==
    /\ [](quit => /\ pc \in {"cleanup", "done", "err"}
                  /\ shown # None
                  /\ shown[1].gen = gen)
    /\ [][quit => /\ quit'
                  /\ UNCHANGED <<gen, shown, next, auto_next,
                                 show_histo_enabled, offset, drag_anchor>>]_vars

\* main returned after a quit in Running mode: the advance flagged for the
\* coming frame was not applied.
C8_Witness ==
    /\ pc = "done"
    /\ quit
    /\ auto_next
    /\ next
    /\ gen.age >= 1

(***************************************************************************)
(* C17 (Spec).  Pan by drag: a primary button-down at p sets the anchor to *)
(* p and leaves the offset; a primary-button drag to p with an anchor set  *)
(* moves the anchor to p and the offset by as much, so that offset minus   *)
(* anchor is what it was at the button-down, whatever positions were       *)
(* dragged through; every other step (other buttons, keys, frames) leaves  *)
(* offset and anchor unchanged.  Hence after a button-down at p0 and drags *)
(* ending at pn the offset is its value at the button-down plus pn - p0.   *)
(***************************************************************************)
LeftGesture ==
    \/ \E p \in MousePos : ReadMouseDown("Left", p[1], p[2])
    \/ \E p \in MousePos : ReadMouseDrag("Left", p[1], p[2])
    \/ ReadMouseUp("Left")

C17_PanByDrag ==
    [][/\ \A p \in MousePos :
             ReadMouseDown("Left", p[1], p[2]) =>
                /\ drag_anchor' = Some(Point(p[1], p[2]))
                /\ offset' = offset
       /\ \A p \in MousePos :
             (drag_anchor # None /\ ReadMouseDrag("Left", p[1], p[2])) =>
                /\ drag_anchor' = Some(Point(p[1], p[2]))
                /\ offset'.x - p[1] = offset.x - drag_anchor[1].x
                /\ offset'.y - p[2] = offset.y - drag_anchor[1].y
       /\ ~LeftGesture => UNCHANGED <<offset, drag_anchor>>]_vars

\* After an advance, a button-down at (1, 0) and a drag to (0, 0): the
\* viewport has moved one column to the left.
C17_Witness ==
    /\ pc = "render"
    /\ gen.age >= 1
    /\ drag_anchor = Some(Point(0, 0))
    /\ offset = Point(-1, 0)

(***************************************************************************)
(* C9 (Spec).  A primary-button drag read while no drag-anchor is set is a *)
(* no-op: offset, drag-anchor, the flags and the Generation are unchanged  *)
(* and the loop goes on.                                                   *)
(***************************************************************************)
C9_DragWithoutAnchorNoOp ==
    [][(/\ pc = "event"
        /\ drag_anchor = None
        /\ \E p \in MousePos : ReadMouseDrag("Left", p[1], p[2]))
       => /\ UNCHANGED <<offset, drag_anchor, auto_next, show_histo_enabled,
                         quit, next, gen>>
          /\ pc' = AfterBody(quit)]_vars

(***************************************************************************)
(* C10 (Spec).  Terminal clean-up: however main ends after the terminal    *)
(* set-up, the restoration of the terminal mode was attempted.             *)
(***************************************************************************)
C10_CleanupAttempted == Ended => restore_attempted

====
